---- MODULE Spec2Model ----
(***************************************************************************)
(* Model of sim-gan.py: the refiner and discriminator layer graphs, the    *)
(* refiner loss, and the control flow of adversarial_training().           *)
(*                                                                         *)
(* Tensor shapes are <<rows, cols, channels>> (channels last, as the       *)
(* Input(shape=(img_width, img_height, img_channels)) call lays them out). *)
(* Tensor values are fixed point: an integer v stands for v/4.  Losses are *)
(* in units of 1/4000, so that delta = -0.001 is the integer -1 per        *)
(* quarter of L1 distance.                                                 *)
(***************************************************************************)
EXTENDS Integers, Sequences, FiniteSets, TLC

\* ---- image dimensions (sim-gan.py:20-22) ----
img_width == 55
img_height == 35
img_channels == 1

\* ---- training params (sim-gan.py:27-30) ----
nb_epochs == 50
batch_size == 32
k_d == 1
k_g == 2

\* range(1000) and range(200) of the two pre-training loops
pretrain_refiner_steps == 1000
pretrain_discriminator_steps == 200

\* ---- bounds of the input sets ----
MaxDim == 4
MaxCh == 2
MaxPix == 2
MaxPixels == 3

VARIABLES
    pc,                 \* position in the function being run
    input_shape,        \* shape of the input image tensor
    refiner_net,        \* layer graph built by refiner_network
    discriminator_net,  \* layer graph built by discriminator_network
    models,             \* refiner_model, discriminator_model, combined_model
    params,             \* theta / phi update counts and mini-batches sampled
    y_real, y_refined,  \* cross-entropy target labels
    n, i, g, d,         \* loop counters
    out,                \* lines printed
    hist,               \* iteration counts per loop (history)
    y_true, y_pred,     \* arguments of refiner_loss
    loss_real, loss_reg, loss

trainVars == <<models, params, y_real, y_refined, n, i, g, d, out, hist>>
netVars == <<input_shape, refiner_net, discriminator_net>>
lossVars == <<y_true, y_pred, loss_real, loss_reg, loss>>
vars == <<pc, netVars, trainVars, lossVars>>

\* ------------------------------------------------------------------------
\* Layer graphs
\* ------------------------------------------------------------------------

\* output length of one spatial axis under border_mode / subsample
conv_output_length(len, k, border_mode, stride) ==
    IF border_mode = "same"
    THEN (len + stride - 1) \div stride
    ELSE (len - k + stride) \div stride

Node(op, nb, kr, kc, bm, st, ins, shape) ==
    [op |-> op, nb_filter |-> nb, rows |-> kr, cols |-> kc,
     border_mode |-> bm, subsample |-> st, inputs |-> ins, shape |-> shape]

\* shape of tensor x in graph net; x = 0 is the input tensor
ShapeOf(net, in_shape, x) == IF x = 0 THEN in_shape ELSE net[x].shape

Convolution2D(net, in_shape, x, nb, kr, kc, bm, st) ==
    LET s == ShapeOf(net, in_shape, x)
    IN Append(net, Node("conv", nb, kr, kc, bm, st, <<x>>,
                        <<conv_output_length(s[1], kr, bm, st),
                          conv_output_length(s[2], kc, bm, st), nb>>))

MaxPooling2D(net, in_shape, x, k, st, bm) ==
    LET s == ShapeOf(net, in_shape, x)
    IN Append(net, Node("maxpool", 0, k, k, bm, st, <<x>>,
                        <<conv_output_length(s[1], k, bm, st),
                          conv_output_length(s[2], k, bm, st), s[3]>>))

Activation(net, in_shape, x, kind) ==
    Append(net, Node(kind, 0, 0, 0, "none", 1, <<x>>, ShapeOf(net, in_shape, x)))

merge_sum(net, in_shape, a, b) ==
    Append(net, Node("sum", 0, 0, 0, "none", 1, <<a, b>>,
                     IF ShapeOf(net, in_shape, a) = ShapeOf(net, in_shape, b)
                     THEN ShapeOf(net, in_shape, a) ELSE <<>>))

\* mutant: the merge adds the first convolution's output instead of the
\* block's input
resnet_block_wrong_skip(net, in_shape, input_features) ==
    LET n1 == Convolution2D(net, in_shape, input_features, 64, 3, 3, "same", 1)
        n2 == Activation(n1, in_shape, Len(n1), "relu")
        n3 == Convolution2D(n2, in_shape, Len(n2), 64, 3, 3, "same", 1)
        n4 == merge_sum(n3, in_shape, Len(n1), Len(n3))
    IN Activation(n4, in_shape, Len(n4), "relu")

resnet_block(net, in_shape, input_features) ==
    LET n1 == Convolution2D(net, in_shape, input_features, 64, 3, 3, "same", 1)
        n2 == Activation(n1, in_shape, Len(n1), "relu")
        n3 == Convolution2D(n2, in_shape, Len(n2), 64, 3, 3, "same", 1)
        n4 == merge_sum(n3, in_shape, input_features, Len(n3))
    IN Activation(n4, in_shape, Len(n4), "relu")

\* for i in range(count): x = resnet_block(x)
RECURSIVE resnet_blocks(_, _, _)
resnet_blocks(net, in_shape, count) ==
    IF count = 0 THEN net
    ELSE resnet_blocks(resnet_block(net, in_shape, Len(net)), in_shape, count - 1)

refiner_network(in_shape) ==
    LET n1 == Convolution2D(<<>>, in_shape, 0, 64, 3, 3, "same", 1)
        n2 == resnet_blocks(n1, in_shape, 4)
    IN Convolution2D(n2, in_shape, Len(n2), 1, 1, 1, "same", 1)

discriminator_network(in_shape) ==
    LET n1 == Convolution2D(<<>>, in_shape, 0, 96, 3, 3, "same", 2)
        n2 == Convolution2D(n1, in_shape, Len(n1), 64, 3, 3, "same", 2)
        n3 == MaxPooling2D(n2, in_shape, Len(n2), 3, 1, "same")
        n4 == Convolution2D(n3, in_shape, Len(n3), 32, 3, 3, "same", 1)
        n5 == Convolution2D(n4, in_shape, Len(n4), 32, 1, 1, "same", 1)
        n6 == Convolution2D(n5, in_shape, Len(n5), 2, 1, 1, "same", 1)
    IN Activation(n6, in_shape, Len(n6), "softmax")

CountOp(net, op) == Cardinality({x \in 1..Len(net) : net[x].op = op})

\* ------------------------------------------------------------------------
\* Tensor arithmetic and the refiner loss
\* ------------------------------------------------------------------------

Abs(v) == IF v < 0 THEN -v ELSE v

RECURSIVE reduce_sum(_)
reduce_sum(t) == IF t = <<>> THEN 0 ELSE t[1] + reduce_sum(Tail(t))

\* element-wise operands broadcast when the lengths agree or one is 1
Broadcastable(a, b) == Len(a) = Len(b) \/ Len(a) = 1 \/ Len(b) = 1
BroadcastLen(a, b) == IF Len(a) >= Len(b) THEN Len(a) ELSE Len(b)
At(a, j) == IF Len(a) = 1 THEN a[1] ELSE a[j]

tensor_sub(a, b) == [j \in 1..BroadcastLen(a, b) |-> At(a, j) - At(b, j)]
tensor_abs(a) == [j \in 1..Len(a) |-> Abs(a[j])]

\* -ln(p/4) in thousandths, for the probabilities 1/4, 2/4, 3/4
NegLogMilli(p) ==
    CASE p = 1 -> 1386
      [] p = 2 -> 693
      [] p = 3 -> 288
      [] OTHER -> 0

\* -(t*log(o) + (1-t)*log(1-o)) per element, in thousandths
binary_crossentropy(output, target) ==
    [j \in 1..BroadcastLen(output, target) |->
        (At(target, j) * NegLogMilli(At(output, j))
         + (4 - At(target, j)) * NegLogMilli(4 - At(output, j))) \div 4]

\* K.mean(x, axis=-1) of a rank-1 tensor
mean(t) == reduce_sum(t) \div Len(t)

\* delta = -0.001, in thousandths
delta == -1

\* y_true = <<target, synthetic image>>, y_pred = <<prediction, refined image>>;
\* Python's index 0 / 1 is index 1 / 2 here
refiner_loss_real(yt, yp) == 4 * mean(binary_crossentropy(yp[1], yt[1]))
refiner_loss_reg(yt, yp) == delta * reduce_sum(tensor_abs(tensor_sub(yp[1], yt[2])))
refiner_loss(yt, yp) == refiner_loss_real(yt, yp) + refiner_loss_reg(yt, yp)

\* the L1 distance between two image tensors
L1Distance(a, b) == reduce_sum(tensor_abs(tensor_sub(a, b)))

\* ---- input sets of the loss ----
Pixels == 0..MaxPix
Images == UNION {[1..len -> Pixels] : len \in 1..MaxPixels}
OneHots == {<<4, 0>>, <<0, 4>>}
Predictions == {<<q, 4 - q>> : q \in 1..3}

None == <<>>

LossInit ==
    /\ pc = "loss_call"
    /\ y_true \in OneHots \X Images
    /\ y_pred \in Predictions \X Images
    /\ loss_real = None /\ loss_reg = None /\ loss = None
    /\ input_shape = None /\ refiner_net = None /\ discriminator_net = None
    /\ models = None /\ params = None /\ y_real = None /\ y_refined = None
    /\ n = 0 /\ i = 0 /\ g = 0 /\ d = 0 /\ out = <<>> /\ hist = None

\* one call of refiner_loss(y_true, y_pred)
RefinerLossCall ==
    /\ pc = "loss_call"
    /\ Broadcastable(y_pred[1], y_true[1])
    /\ Broadcastable(y_pred[1], y_true[2])
    /\ loss_real' = refiner_loss_real(y_true, y_pred)
    /\ loss_reg' = refiner_loss_reg(y_true, y_pred)
    /\ loss' = refiner_loss(y_true, y_pred)
    /\ pc' = "loss_done"
    /\ UNCHANGED <<y_true, y_pred, netVars, trainVars>>

\* the element-wise difference of tensors of incompatible shapes raises
RefinerLossShapeError ==
    /\ pc = "loss_call"
    /\ ~ (Broadcastable(y_pred[1], y_true[1]) /\ Broadcastable(y_pred[1], y_true[2]))
    /\ pc' = "loss_error"
    /\ UNCHANGED <<lossVars, netVars, trainVars>>

LossNext == RefinerLossCall \/ RefinerLossShapeError
LossSpec == LossInit /\ [][LossNext]_vars

\* ------------------------------------------------------------------------
\* The two networks on any input shape
\* ------------------------------------------------------------------------
Dims == (1..MaxDim) \cup {img_width, img_height}
Channels == 1..MaxCh

NetInit ==
    /\ pc = "net"
    /\ input_shape \in Dims \X Dims \X Channels
    /\ refiner_net = None /\ discriminator_net = None
    /\ models = None /\ params = None /\ y_real = None /\ y_refined = None
    /\ n = 0 /\ i = 0 /\ g = 0 /\ d = 0 /\ out = <<>> /\ hist = None
    /\ y_true = None /\ y_pred = None
    /\ loss_real = None /\ loss_reg = None /\ loss = None

RefinerNetworkCall ==
    /\ pc = "net"
    /\ refiner_net = None
    /\ refiner_net' = refiner_network(input_shape)
    /\ UNCHANGED <<pc, input_shape, discriminator_net, trainVars, lossVars>>

DiscriminatorNetworkCall ==
    /\ pc = "net"
    /\ discriminator_net = None
    /\ discriminator_net' = discriminator_network(input_shape)
    /\ UNCHANGED <<pc, input_shape, refiner_net, trainVars, lossVars>>

NetNext == RefinerNetworkCall \/ DiscriminatorNetworkCall
NetSpec == NetInit /\ [][NetNext]_vars

\* ------------------------------------------------------------------------
\* adversarial_training()
\* ------------------------------------------------------------------------

Model(input, output, name) ==
    [name |-> name, input |-> input, output |-> output,
     compiled |-> FALSE, optimizer |-> "none", loss |-> "none", trainable |-> TRUE]

compile(m, optimizer, lossfn) ==
    [m EXCEPT !.compiled = TRUE, !.optimizer = optimizer, !.loss = lossfn]

\* np.zeros(shape=len), np.ones(shape=len)
np_zeros(len) == [j \in 1..len |-> 0]
np_ones(len) == [j \in 1..len |-> 1]

\* mutant: the one-hot column is taken from the complement of the class
to_categorical_flipped(y, nb_classes) ==
    [r \in 1..Len(y) |-> [c \in 1..nb_classes |-> IF y[r] = nb_classes - c THEN 1 ELSE 0]]

\* np_utils.to_categorical: row r has a 1 in column y[r] (0-based), 0 elsewhere
to_categorical(y, nb_classes) ==
    [r \in 1..Len(y) |-> [c \in 1..nb_classes |-> IF y[r] = c - 1 THEN 1 ELSE 0]]

\* 'Epoch: {} of {}.'.format(i, nb_epochs)
EpochMessage(e) == <<"Epoch: ", e, " of ", nb_epochs, ".">>

\* mutant: the loop body takes an SGD step on a sampled mini-batch
refiner_update_body_sgd(p) ==
    [p EXCEPT !.theta = @ + 1, !.batches = @ + 1]

\* the loop bodies: each is `pass`
refiner_pretrain_body(p) == p
discriminator_pretrain_body(p) == p
refiner_update_body(p) == p
discriminator_update_body(p) == p

Init ==
    /\ pc = "tensors"
    /\ input_shape = <<img_width, img_height, img_channels>>
    /\ refiner_net = None /\ discriminator_net = None
    /\ models = None
    /\ params = [theta |-> 0, phi |-> 0, batches |-> 0]
    /\ y_real = None /\ y_refined = None
    /\ n = 0 /\ i = 0 /\ g = 0 /\ d = 0
    /\ out = <<>>
    /\ hist = [pre_refiner |-> 0, pre_discriminator |-> 0, refiner |-> 0, discriminator |-> 0]
    /\ y_true = None /\ y_pred = None
    /\ loss_real = None /\ loss_reg = None /\ loss = None

\* lines 95-98: the input tensors and the two networks built on them
DefineTensors ==
    /\ pc = "tensors"
    /\ refiner_net' = refiner_network(input_shape)
    /\ discriminator_net' = discriminator_network(<<img_width, img_height, img_channels>>)
    /\ pc' = "models"
    /\ UNCHANGED <<input_shape, trainVars, lossVars>>

\* lines 103-105
DefineModels ==
    /\ pc = "models"
    /\ models' = [refiner |-> Model("synthetic_image_tensor", "refined_image_tensor", "refiner"),
                  discriminator |-> Model("refined_or_real_image_tensor", "discriminator_output", "discriminator"),
                  combined |-> Model("synthetic_image_tensor", "discriminator_output", "combined")]
    /\ pc' = "compile"
    /\ UNCHANGED <<netVars, params, y_real, y_refined, n, i, g, d, out, hist, lossVars>>

\* lines 128-132
CompileModels ==
    /\ pc = "compile"
    /\ models' = [refiner |-> compile(models.refiner, "sgd", "refiner_loss"),
                  discriminator |-> [compile(models.discriminator, "sgd", "categorical_crossentropy")
                                        EXCEPT !.trainable = FALSE],
                  combined |-> compile(models.combined, "sgd", "categorical_crossentropy")]
    /\ pc' = "labels"
    /\ UNCHANGED <<netVars, params, y_real, y_refined, n, i, g, d, out, hist, lossVars>>

\* lines 135-136
MakeLabels ==
    /\ pc = "labels"
    /\ y_real' = to_categorical(np_zeros(batch_size), 2)
    /\ y_refined' = to_categorical(np_ones(batch_size), 2)
    /\ n' = 0
    /\ pc' = "pre_refiner"
    /\ UNCHANGED <<netVars, models, params, i, g, d, out, hist, lossVars>>

\* lines 139-140: one iteration of `for _ in range(1000): pass`
PretrainRefinerStep ==
    /\ pc = "pre_refiner"
    /\ n < pretrain_refiner_steps
    /\ params' = refiner_pretrain_body(params)
    /\ n' = n + 1
    /\ hist' = [hist EXCEPT !.pre_refiner = @ + 1]
    /\ UNCHANGED <<pc, netVars, models, y_real, y_refined, i, g, d, out, lossVars>>

\* mutant: the discriminator pre-training starts one step early
PretrainRefinerExitEarly ==
    /\ pc = "pre_refiner"
    /\ n >= pretrain_refiner_steps - 1
    /\ n' = 0
    /\ pc' = "pre_discriminator"
    /\ UNCHANGED <<netVars, models, params, y_real, y_refined, i, g, d, out, hist, lossVars>>

PretrainRefinerExit ==
    /\ pc = "pre_refiner"
    /\ n = pretrain_refiner_steps
    /\ n' = 0
    /\ pc' = "pre_discriminator"
    /\ UNCHANGED <<netVars, models, params, y_real, y_refined, i, g, d, out, hist, lossVars>>

\* lines 143-144: one iteration of `for _ in range(200): pass`
PretrainDiscriminatorStep ==
    /\ pc = "pre_discriminator"
    /\ n < pretrain_discriminator_steps
    /\ params' = discriminator_pretrain_body(params)
    /\ n' = n + 1
    /\ hist' = [hist EXCEPT !.pre_discriminator = @ + 1]
    /\ UNCHANGED <<pc, netVars, models, y_real, y_refined, i, g, d, out, lossVars>>

PretrainDiscriminatorExit ==
    /\ pc = "pre_discriminator"
    /\ n = pretrain_discriminator_steps
    /\ i' = 0
    /\ pc' = "epoch"
    /\ UNCHANGED <<netVars, models, params, y_real, y_refined, n, g, d, out, hist, lossVars>>

\* lines 147-148: the next epoch starts and prints its message
EpochBegin ==
    /\ pc = "epoch"
    /\ i < nb_epochs
    /\ out' = Append(out, EpochMessage(i))
    /\ g' = 0
    /\ pc' = "refiner"
    /\ UNCHANGED <<netVars, models, params, y_real, y_refined, n, i, d, hist, lossVars>>

\* lines 151-154: one iteration of `for _ in range(k_g): pass`
RefinerUpdate ==
    /\ pc = "refiner"
    /\ g < k_g
    /\ params' = refiner_update_body(params)
    /\ g' = g + 1
    /\ hist' = [hist EXCEPT !.refiner = @ + 1]
    /\ UNCHANGED <<pc, netVars, models, y_real, y_refined, n, i, d, out, lossVars>>

\* mutant: the refiner loop may be left after its first iteration
RefinerLoopExitEarly ==
    /\ pc = "refiner"
    /\ g >= k_g - 1
    /\ d' = 0
    /\ pc' = "discriminator"
    /\ UNCHANGED <<netVars, models, params, y_real, y_refined, n, i, g, out, hist, lossVars>>

RefinerLoopExit ==
    /\ pc = "refiner"
    /\ g = k_g
    /\ d' = 0
    /\ pc' = "discriminator"
    /\ UNCHANGED <<netVars, models, params, y_real, y_refined, n, i, g, out, hist, lossVars>>

\* lines 156-160: one iteration of `for _ in range(k_d): pass`
DiscriminatorUpdate ==
    /\ pc = "discriminator"
    /\ d < k_d
    /\ params' = discriminator_update_body(params)
    /\ d' = d + 1
    /\ hist' = [hist EXCEPT !.discriminator = @ + 1]
    /\ UNCHANGED <<pc, netVars, models, y_real, y_refined, n, i, g, out, lossVars>>

\* the epoch ends; the outer loop advances
DiscriminatorLoopExit ==
    /\ pc = "discriminator"
    /\ d = k_d
    /\ i' = i + 1
    /\ pc' = "epoch"
    /\ UNCHANGED <<netVars, models, params, y_real, y_refined, n, g, d, out, hist, lossVars>>

\* range(nb_epochs) is exhausted: adversarial_training returns
Return ==
    /\ pc = "epoch"
    /\ i = nb_epochs
    /\ pc' = "done"
    /\ UNCHANGED <<netVars, trainVars, lossVars>>

Next ==
    \/ DefineTensors
    \/ DefineModels
    \/ CompileModels
    \/ MakeLabels
    \/ PretrainRefinerStep
    \/ PretrainRefinerExit
    \/ PretrainDiscriminatorStep
    \/ PretrainDiscriminatorExit
    \/ EpochBegin
    \/ RefinerUpdate
    \/ RefinerLoopExit
    \/ DiscriminatorUpdate
    \/ DiscriminatorLoopExit
    \/ Return

Spec == Init /\ [][Next]_vars

\* ------------------------------------------------------------------------
\* Properties
\* ------------------------------------------------------------------------

\* C1 (as claimed; checked under LossSpec): for a fixed cross-entropy term
\* (same target and same prediction) the total loss does not decrease when
\* the L1 distance between the refined and the synthetic image increases,
\* and the regularization term, a non-negative weight times an L1 sum, is
\* never negative.
C1_LossGrowsWithL1 ==
    pc = "loss_done" =>
        /\ loss_reg >= 0
        /\ \A r2 \in Images, x2 \in Images :
              ( /\ Broadcastable(y_pred[2], y_true[2])
                /\ Broadcastable(r2, x2)
                /\ Broadcastable(y_pred[1], x2)
                /\ L1Distance(r2, x2) >= L1Distance(y_pred[2], y_true[2]) )
              => refiner_loss(<<y_true[1], x2>>, <<y_pred[1], r2>>) >= loss

\* C2 (as claimed; checked under NetSpec): the discriminator's layer
\* sequence has exactly 5 convolution layers and exactly 2 max-pooling
\* layers, whatever the input shape.
C2_DiscriminatorLayerCounts ==
    discriminator_net # None =>
        /\ CountOp(discriminator_net, "conv") = 5
        /\ CountOp(discriminator_net, "maxpool") = 2

\* C3: from compilation to return no step changes theta, phi, the number of
\* mini-batches sampled or the compiled models.
AfterCompile ==
    {"labels", "pre_refiner", "pre_discriminator", "epoch", "refiner", "discriminator", "done"}

ModelStateKept == pc \in AfterCompile => (params' = params /\ models' = models)

C3_TrainingIsNoOp == [][ModelStateKept]_vars

C3_Witness ==
    /\ pc = "done"
    /\ hist.pre_refiner + hist.pre_discriminator = 1200
    /\ hist.refiner + hist.discriminator = 150
    /\ models.refiner.compiled

\* C4 (as claimed; checked under LossSpec): the regularization term is
\* delta times the L1 distance between the refined image y_pred[1] and the
\* synthetic image y_true[1] (Python indices), and the cross-entropy term is
\* the mean cross-entropy of the first components.
C4_LossTermsUseDocumentedComponents ==
    (pc = "loss_done" /\ Broadcastable(y_pred[2], y_true[2])) =>
        /\ loss_reg = delta * L1Distance(y_pred[2], y_true[2])
        /\ loss_real = 4 * mean(binary_crossentropy(y_pred[1], y_true[1]))

\* C5 (checked under NetSpec): the refiner is one 3x3 convolution with 64
\* maps, 4 blocks of (3x3 conv 64, ReLU, 3x3 conv 64, sum with the block's
\* input, ReLU), and one 1x1 convolution with 1 map; every layer keeps the
\* input's width and height, so a (55, 35, 1) input gives a (55, 35, 1)
\* output.
IsConv(nd, nb, k, src) ==
    /\ nd.op = "conv" /\ nd.nb_filter = nb /\ nd.rows = k /\ nd.cols = k
    /\ nd.inputs = <<src>>

IsResnetBlock(net, base) ==
    /\ IsConv(net[base + 1], 64, 3, base)
    /\ net[base + 2].op = "relu" /\ net[base + 2].inputs = <<base + 1>>
    /\ IsConv(net[base + 3], 64, 3, base + 2)
    /\ net[base + 4].op = "sum" /\ net[base + 4].inputs = <<base, base + 3>>
    /\ net[base + 5].op = "relu" /\ net[base + 5].inputs = <<base + 4>>

C5_RefinerArchitecture ==
    refiner_net # None =>
        /\ Len(refiner_net) = 22
        /\ IsConv(refiner_net[1], 64, 3, 0)
        /\ \A b \in 0..3 : IsResnetBlock(refiner_net, 1 + 5 * b)
        /\ IsConv(refiner_net[22], 1, 1, 21)
        /\ \A x \in 1..22 :
              /\ Len(refiner_net[x].shape) = 3
              /\ refiner_net[x].shape[1] = input_shape[1]
              /\ refiner_net[x].shape[2] = input_shape[2]
        /\ refiner_net[22].shape[3] = 1
        /\ input_shape = <<55, 35, 1>> => refiner_net[22].shape = <<55, 35, 1>>

C5_Witness ==
    /\ refiner_net # None
    /\ input_shape = <<55, 35, 1>>
    /\ refiner_net[Len(refiner_net)].op = "conv"

\* C6: the epochs 0..49 run in ascending order; each prints its message,
\* then runs 2 refiner iterations, then 1 discriminator iteration; the run
\* totals 100 refiner and 50 discriminator iterations.
C6_EpochOrder ==
    /\ Len(out) <= 50
    /\ \A j \in 1..Len(out) : out[j] = <<"Epoch: ", j - 1, " of ", 50, ".">>
    /\ Len(out) = 0 => (hist.refiner = 0 /\ hist.discriminator = 0)
    /\ Len(out) > 0 =>
          LET e == Len(out) - 1
          IN /\ hist.refiner >= 2 * e /\ hist.refiner <= 2 * e + 2
             /\ hist.discriminator >= e /\ hist.discriminator <= e + 1
             /\ hist.discriminator = e + 1 => hist.refiner = 2 * e + 2
    /\ pc = "done" =>
          (Len(out) = 50 /\ hist.refiner = 100 /\ hist.discriminator = 50)

C6_Witness ==
    /\ pc = "done"
    /\ Len(out) = 50
    /\ hist.refiner = 100

\* C7: the 1000 refiner pre-training steps all precede the first of the 200
\* discriminator pre-training steps, which all precede the first epoch.
C7_PretrainOrder ==
    /\ hist.pre_refiner <= 1000
    /\ hist.pre_discriminator <= 200
    /\ hist.pre_discriminator > 0 => hist.pre_refiner = 1000
    /\ (Len(out) > 0 \/ hist.refiner > 0 \/ hist.discriminator > 0 \/ pc = "done") =>
          (hist.pre_refiner = 1000 /\ hist.pre_discriminator = 200)

C7_Witness ==
    /\ Len(out) = 1
    /\ hist.pre_refiner = 1000
    /\ hist.pre_discriminator = 200

\* C8: y_real is 32 rows of the one-hot encoding of class 0, y_refined is 32
\* rows of the one-hot encoding of class 1, and no row of one equals a row of
\* the other.
C8_Labels ==
    pc \in (AfterCompile \ {"labels"}) =>
        /\ Len(y_real) = 32
        /\ Len(y_refined) = 32
        /\ \A r \in 1..Len(y_real) : y_real[r] = <<1, 0>>
        /\ \A r \in 1..Len(y_refined) : y_refined[r] = <<0, 1>>
        /\ \A r \in 1..Len(y_real), q \in 1..Len(y_refined) : y_real[r] # y_refined[q]

C8_Witness ==
    /\ pc = "pre_refiner"
    /\ Len(y_real) = 32
    /\ y_refined[32][2] = 1

====
